---- MODULE Spec2Model ----
(***************************************************************************)
(* Player locomotion and chase camera of the paintbrush game               *)
(* (src/player/movement/mod.rs, src/player/movement/locomotion.rs,         *)
(* src/camera.rs), modelled as a state machine of per-frame systems.       *)
(*                                                                         *)
(* Numbers.  f32 quantities are fixed-point integers: speeds, lengths and  *)
(* positions in hundredths of a unit; time in milliseconds; rates, lerp    *)
(* factors and the components of unit vectors in thousandths; angles in    *)
(* whole degrees.  A product with a factor in thousandths is scaled back   *)
(* by Milli(), truncating toward zero.                                     *)
(***************************************************************************)
EXTENDS Integers, Sequences, FiniteSets, TLC

VARIABLES
    player_speed,   \* the PlayerSpeed resource
    player,         \* the Player entity and its components
    camera,         \* the camera entity: CameraController and Transform
    action,         \* ActionState<PlayerAction> of this frame
    time_delta,     \* Res<Time>: delta of this frame, in ms
    level,          \* level geometry as the ray cast sees it this frame
    scheduled,      \* the systems added to the App
    ran,            \* systems that already ran in the current frame
    commands,       \* deferred Commands issued in the current frame
    panicked,       \* a system panicked: the app is gone
    last            \* history: the last step taken and the state before it

vars == <<player_speed, player, camera, action, time_delta, level,
          scheduled, ran, commands, panicked, last>>

----------------------------------------------------------------------------
(* Bounds of the model. *)

\* how many of the candidate frame deltas of DeltaSeq are used
NumDeltas == 3
\* how many of the candidate speeds of SetSpeedSeq set(speed) is called with
NumSetSpeeds == 2

DeltaSeq == <<0, 200, 1000, 500>>
Deltas == {DeltaSeq[i] : i \in 1..NumDeltas}

\* how many of the candidate frame deltas of FrameDeltaSeq the frame loop uses
NumFrameDeltas == 2

FrameDeltaSeq == <<0, 500, 200>>
FrameDeltas == {FrameDeltaSeq[i] : i \in 1..NumFrameDeltas}

SetSpeedSeq == <<2000, 1000, 300, 1500>>
SetSpeeds == {SetSpeedSeq[i] : i \in 1..NumSetSpeeds}

----------------------------------------------------------------------------
(* Fixed-point helpers. *)

\* a / b truncated toward zero, for b > 0
Quot(a, b) == IF a >= 0 THEN a \div b ELSE -((-a) \div b)

\* n / 1000 truncated toward zero
Milli(n) == Quot(n, 1000)

Vec3(x, y, z) == [x |-> x, y |-> y, z |-> z]
ZERO == Vec3(0, 0, 0)
VAdd(a, b) == Vec3(a.x + b.x, a.y + b.y, a.z + b.z)
VSub(a, b) == Vec3(a.x - b.x, a.y - b.y, a.z - b.z)
\* vector times a scalar given in thousandths
VScale(a, k) == Vec3(Milli(a.x * k), Milli(a.y * k), Milli(a.z * k))

----------------------------------------------------------------------------
(* Timer (TimerMode::Once), as the code uses it. *)

\* Timer::from_seconds(seconds, TimerMode::Once)
TimerFromMs(ms) == [duration |-> ms, elapsed |-> 0, finished |-> FALSE]

\* Timer::tick: a finished Once timer stays as it is; otherwise the elapsed
\* time advances and is clamped to the duration when it reaches it
TimerTick(t, delta) ==
    IF t.finished THEN t
    ELSE IF t.elapsed + delta >= t.duration
         THEN [t EXCEPT !.elapsed = t.duration, !.finished = TRUE]
         ELSE [t EXCEPT !.elapsed = t.elapsed + delta]

\* Timer::reset
TimerReset(t) == [t EXCEPT !.elapsed = 0, !.finished = FALSE]

----------------------------------------------------------------------------
(* PlayerSpeed (locomotion.rs). *)

AccelWarmupMs == 300
DecelWarmupMs == 500
BaseSpeed == 750
CrawlSpeed == 400
BaseTopSpeed == 1500
Acceleration == 1000
Deceleration == 2000
\* the 0.3 of accelerate and decelerate
SnapGap == 30

\* impl Default for PlayerSpeed
DefaultPlayerSpeed ==
    [accel_timer    |-> TimerFromMs(AccelWarmupMs),
     decel_timer    |-> TimerFromMs(DecelWarmupMs),
     base_speed     |-> BaseSpeed,
     crawl_speed    |-> CrawlSpeed,
     current_speed  |-> BaseSpeed,
     top_speed      |-> BaseTopSpeed,
     base_top_speed |-> BaseTopSpeed,
     acceleration   |-> Acceleration,
     deceleration   |-> Deceleration]

\* PlayerSpeed::reset that forgets the top speed
reset_keeps_top(ps) ==
    [ps EXCEPT !.current_speed = ps.base_speed,
               !.accel_timer = TimerReset(ps.accel_timer),
               !.decel_timer = TimerReset(ps.decel_timer)]

\* PlayerSpeed::reset
reset(ps) ==
    [ps EXCEPT !.current_speed = ps.base_speed,
               !.top_speed = ps.base_top_speed,
               !.accel_timer = TimerReset(ps.accel_timer),
               !.decel_timer = TimerReset(ps.decel_timer)]

\* PlayerSpeed::accelerate without the warm-up gate
accelerate_ungated(ps, dt) ==
    LET t == TimerTick(ps.accel_timer, dt)
        ticked == [ps EXCEPT !.accel_timer = t]
    IN  IF ps.current_speed + SnapGap <= ps.top_speed
        THEN [ticked EXCEPT !.current_speed =
                 ps.current_speed
                 + Milli((ps.top_speed - ps.current_speed)
                         * Milli(dt * ps.acceleration))]
        ELSE [ticked EXCEPT !.current_speed = ps.top_speed]

\* PlayerSpeed::accelerate without the snap to the top speed
accelerate_no_snap(ps, dt) ==
    LET t == TimerTick(ps.accel_timer, dt)
        ticked == [ps EXCEPT !.accel_timer = t]
    IN  IF t.finished /\ ps.current_speed + SnapGap <= ps.top_speed
        THEN [ticked EXCEPT !.current_speed =
                 ps.current_speed
                 + Milli((ps.top_speed - ps.current_speed)
                         * Milli(dt * ps.acceleration))]
        ELSE ticked

\* PlayerSpeed::accelerate(delta, seconds); delta and seconds are the same
\* frame delta, here dt in ms
accelerate(ps, dt) ==
    LET t == TimerTick(ps.accel_timer, dt)
        ticked == [ps EXCEPT !.accel_timer = t]
    IN  IF t.finished
        THEN IF ps.current_speed + SnapGap <= ps.top_speed
             THEN [ticked EXCEPT !.current_speed =
                      ps.current_speed
                      + Milli((ps.top_speed - ps.current_speed)
                              * Milli(dt * ps.acceleration))]
             ELSE [ticked EXCEPT !.current_speed = ps.top_speed]
        ELSE ticked

\* PlayerSpeed::decelerate(delta, seconds)
decelerate(ps, dt) ==
    LET t == TimerTick(ps.decel_timer, dt)
        ticked == [ps EXCEPT !.decel_timer = t]
    IN  IF t.finished
        THEN IF ps.current_speed - SnapGap >= ps.crawl_speed
             THEN [ticked EXCEPT !.current_speed =
                      ps.current_speed
                      + Milli((ps.crawl_speed - ps.current_speed)
                              * Milli(dt * ps.deceleration))]
             ELSE ticked
        ELSE ticked

\* PlayerSpeed::current
current(ps) == ps.current_speed

\* PlayerSpeed::set that leaves the top speed alone
set_current_only(ps, speed) == [ps EXCEPT !.current_speed = speed]

\* PlayerSpeed::set(speed)
set(ps, speed) == [ps EXCEPT !.top_speed = speed, !.current_speed = speed]

----------------------------------------------------------------------------
(* Components of the Player entity and the camera entity. *)

None(default) == [some |-> FALSE, val |-> default]
Some(v) == [some |-> TRUE, val |-> v]

\* the state right after spawn: a grounded, idle player at the origin
\* facing -Z
DefaultPlayer ==
    [exists        |-> TRUE,
     grounded      |-> TRUE,
     crouching     |-> FALSE,
     ledge_grab    |-> FALSE,
     movement      |-> ZERO,
     momentum      |-> 0,
     drift         |-> ZERO,
     outside_force |-> None(ZERO),
     velocity      |-> ZERO,
     translation   |-> ZERO,
     forward       |-> Vec3(0, 0, -1000),
     busy          |-> None(TimerFromMs(0)),
     landing       |-> None(TimerFromMs(0))]

Normal == [kind |-> "Normal", position |-> ZERO, look_target |-> ZERO]
Fixed(position, look_target) ==
    [kind |-> "Fixed", position |-> position, look_target |-> look_target]

\* impl Default for CameraController, on a camera entity whose Transform
\* starts at the origin
DefaultCamera ==
    [exists            |-> TRUE,
     z_distance        |-> 1000,
     y_distance        |-> 700,
     angle             |-> 0,
     easing            |-> 4000,
     target_position   |-> ZERO,
     player_position   |-> ZERO,
     mode              |-> Fixed(Vec3(0, 4000, -2300), ZERO),
     blocked_by_a_wall |-> FALSE,
     translation       |-> ZERO,
     forward           |-> Vec3(0, 0, -1000)]

NoInput == [pressed |-> {}, just_pressed |-> {}, axis_pair |-> None(<<0, 0>>)]
NoLevel == None(0)

\* per marker: the time ticked into it, and the removals issued for it,
\* since it was attached
NoTicks == [busy |-> 0, landing |-> 0]

\* the speed the last set(speed) pinned, while only accelerate has been
\* called since
NotPinned == None(0)

\* the history variable: the step taken last, its arguments, the state it
\* started from, the marker accounts and the pinned speed
Taken(op, dt, arg) ==
    [op |-> op, dt |-> dt, arg |-> arg,
     player_speed |-> player_speed, player |-> player, camera |-> camera,
     ticked |-> last.ticked, removals |-> last.removals,
     pinned |-> last.pinned]

\* the history after a step of the frame loop or of a collaborator: the
\* state that step left
Left(op, dt) ==
    [op |-> op, dt |-> dt, arg |-> 0,
     player_speed |-> player_speed', player |-> player', camera |-> camera',
     ticked |-> last.ticked, removals |-> last.removals,
     pinned |-> last.pinned]

InitWith(systems, p, cam) ==
    /\ scheduled = systems
    /\ player_speed = DefaultPlayerSpeed
    /\ player = p
    /\ camera = cam
    /\ action = NoInput
    /\ time_delta = 0
    /\ level = NoLevel
    /\ ran = {}
    /\ commands = {}
    /\ panicked = FALSE
    /\ last = [op |-> "init", dt |-> 0, arg |-> 0,
               player_speed |-> player_speed, player |-> player,
               camera |-> camera,
               ticked |-> NoTicks, removals |-> NoTicks, pinned |-> NotPinned]

Init(systems) == InitWith(systems, DefaultPlayer, DefaultCamera)

----------------------------------------------------------------------------
(* The Speed Model on its own: PlayerSpeed's methods called in any order.  *)

CallAccelerate(dt) ==
    /\ UNCHANGED scheduled
    /\ player_speed' = accelerate(player_speed, dt)
    /\ last' = Taken("accelerate", dt, 0)
    /\ UNCHANGED <<player, camera, action, time_delta, level, ran,
                   commands, panicked>>

CallDecelerate(dt) ==
    /\ UNCHANGED scheduled
    /\ player_speed' = decelerate(player_speed, dt)
    /\ last' = [Taken("decelerate", dt, 0) EXCEPT !.pinned = NotPinned]
    /\ UNCHANGED <<player, camera, action, time_delta, level, ran,
                   commands, panicked>>

CallReset ==
    /\ UNCHANGED scheduled
    /\ player_speed' = reset(player_speed)
    /\ last' = [Taken("reset", 0, 0) EXCEPT !.pinned = NotPinned]
    /\ UNCHANGED <<player, camera, action, time_delta, level, ran,
                   commands, panicked>>

CallSet(speed) ==
    /\ UNCHANGED scheduled
    /\ player_speed' = set(player_speed, speed)
    /\ last' = [Taken("set", 0, speed) EXCEPT !.pinned = Some(speed)]
    /\ UNCHANGED <<player, camera, action, time_delta, level, ran,
                   commands, panicked>>

NextSpeedModel ==
    \/ \E dt \in Deltas : CallAccelerate(dt)
    \/ \E dt \in Deltas : CallDecelerate(dt)
    \/ CallReset
    \/ \E speed \in SetSpeeds : CallSet(speed)

SpecSpeedModel == Init({}) /\ [][NextSpeedModel]_vars

----------------------------------------------------------------------------
(* Vector helpers of the direction and camera code. *)

RECURSIVE SqrtBetween(_, _, _)
\* the largest r in lo..hi with r * r <= n
SqrtBetween(n, lo, hi) ==
    IF lo >= hi THEN lo
    ELSE LET mid == (lo + hi + 1) \div 2
         IN  IF mid * mid <= n THEN SqrtBetween(n, mid, hi)
             ELSE SqrtBetween(n, lo, mid - 1)

\* the integer square root, for n below 40000 squared
ISqrt(n) == SqrtBetween(n, 0, 40000)

Length(v) == ISqrt(v.x * v.x + v.y * v.y + v.z * v.z)

\* Vec3::normalize_or_zero: a unit vector, components in thousandths
normalize_or_zero(v) ==
    LET l == Length(v)
    IN  IF l = 0 THEN ZERO
        ELSE Vec3(Quot(v.x * 1000, l), Quot(v.y * 1000, l), Quot(v.z * 1000, l))

\* Movement::is_moving
is_moving(movement) == movement # ZERO

\* Momentum::has_momentum, Momentum::get, Momentum::set, Momentum::reset
has_momentum(momentum) == momentum # 0
momentum_get(momentum) == momentum
momentum_set(momentum, speed) == speed
momentum_reset(momentum) == 0

\* Drift::has_drift
has_drift(drift) == drift # ZERO

----------------------------------------------------------------------------
(* The frame loop: every scheduled system runs once per frame. *)

\* the camera systems ordered the other way round
CameraOrderReversed ==
    {<<"lerp_to_camera_position", "update_camera_target_position">>}

\* .after() constraints between systems: <<first, second>>
CameraOrder == {<<"update_camera_target_position", "lerp_to_camera_position">>}
LocomotionOrder == {<<"set_player_direction", "handle_player_speed">>,
                    <<"handle_player_speed", "apply_momentum">>}

\* system sys may run now
CanRun(sys) ==
    /\ ~panicked
    /\ sys \in scheduled
    /\ sys \notin ran
    /\ \A o \in CameraOrder \cup LocomotionOrder :
           (o[2] = sys /\ o[1] \in scheduled) => o[1] \in ran

----------------------------------------------------------------------------
(* Locomotion systems (locomotion.rs). *)

\* action.pressed(Move) with no axis pair: clamped_axis_pair(..).unwrap()
unwrap_fails(act) == "Move" \in act.pressed /\ ~act.axis_pair.some

\* get_direction_in_camera_space(camera_transform, action); forward is the
\* camera transform's forward vector, right its right vector (forward x Y)
get_direction_in_camera_space(cam_forward, act) ==
    LET forward == normalize_or_zero(Vec3(cam_forward.x, 0, cam_forward.z))
        right == normalize_or_zero(Vec3(-cam_forward.z, 0, cam_forward.x))
        zd == (IF "Up" \in act.pressed THEN 1000 ELSE 0)
              - (IF "Down" \in act.pressed THEN 1000 ELSE 0)
        xd == (IF "Right" \in act.pressed THEN 1000 ELSE 0)
              - (IF "Left" \in act.pressed THEN 1000 ELSE 0)
        x == IF "Move" \in act.pressed THEN act.axis_pair.val[1] ELSE xd
        z == IF "Move" \in act.pressed THEN act.axis_pair.val[2] ELSE zd
    IN  normalize_or_zero(VAdd(VScale(right, x), VScale(forward, z)))

\* an airborne branch that leaves Movement as the last grounded frame set it
airborne_movement_kept(movement) == movement

\* the airborne branch of set_player_direction: a Movement that is_moving
\* is zeroed
airborne_movement(movement) ==
    IF is_moving(movement) THEN ZERO ELSE movement

set_player_direction ==
    /\ UNCHANGED scheduled
    /\ CanRun("set_player_direction")
    /\ ran' = ran \cup {"set_player_direction"}
    /\ last' = Taken("set_player_direction", time_delta, 0)
    /\ IF ~camera.exists
       THEN \* camera_query.single() panics
            /\ panicked' = TRUE
            /\ UNCHANGED player
       ELSE IF ~player.exists
       THEN UNCHANGED <<player, panicked>>
       ELSE IF player.grounded
       THEN IF unwrap_fails(action)
            THEN /\ panicked' = TRUE
                 /\ UNCHANGED player
            ELSE /\ player' = [player EXCEPT !.movement =
                        get_direction_in_camera_space(camera.forward, action)]
                 /\ UNCHANGED panicked
       ELSE /\ player' = [player EXCEPT !.movement = airborne_movement(@)]
            /\ UNCHANGED panicked
    /\ UNCHANGED <<player_speed, camera, action, time_delta, level, commands>>

\* the query filter of handle_player_speed:
\* (With<Player>, With<Grounded>, Without<Crouching>)
speed_query_matches(p) == p.exists /\ p.grounded /\ ~p.crouching

\* the body of the loop of handle_player_speed: <<PlayerSpeed, Momentum>>
speed_step(ps, p, act, dt) ==
    IF is_moving(p.movement)
    THEN LET stepped == IF "Crouch" \in act.pressed
                        THEN decelerate(ps, dt)
                        ELSE accelerate(ps, dt)
         IN  <<stepped, momentum_set(p.momentum, stepped.current_speed)>>
    ELSE <<reset(ps), momentum_reset(p.momentum)>>

handle_player_speed ==
    /\ UNCHANGED scheduled
    /\ CanRun("handle_player_speed")
    /\ ran' = ran \cup {"handle_player_speed"}
    /\ last' = Taken("handle_player_speed", time_delta, 0)
    /\ IF speed_query_matches(player)
       THEN LET r == speed_step(player_speed, player, action, time_delta)
            IN  /\ player_speed' = r[1]
                /\ player' = [player EXCEPT !.momentum = r[2]]
       ELSE UNCHANGED <<player_speed, player>>
    /\ UNCHANGED <<camera, action, time_delta, level, commands, panicked>>

\* apply_momentum whose drift replaces the speed composed so far
composed_velocity_drift_wins(p) ==
    LET from_force == IF p.outside_force.some
                      THEN Vec3(p.outside_force.val.x, 0, p.outside_force.val.z)
                      ELSE ZERO
        from_momentum == IF has_momentum(p.momentum)
                         THEN VScale(p.forward, momentum_get(p.momentum))
                         ELSE ZERO
        speed_to_apply == IF has_drift(p.drift) THEN p.drift
                          ELSE VAdd(from_force, from_momentum)
        should_change_velocity == \/ p.outside_force.some
                                  \/ has_momentum(p.momentum)
                                  \/ has_drift(p.drift)
    IN  IF should_change_velocity
        THEN [p.velocity EXCEPT !.x = speed_to_apply.x, !.z = speed_to_apply.z]
        ELSE p.velocity

\* apply_momentum that writes the whole composed vector, y included
composed_velocity_with_y(p) ==
    LET from_force == IF p.outside_force.some
                      THEN Vec3(p.outside_force.val.x, 0, p.outside_force.val.z)
                      ELSE ZERO
        from_momentum == IF has_momentum(p.momentum)
                         THEN VScale(p.forward, momentum_get(p.momentum))
                         ELSE ZERO
        from_drift == IF has_drift(p.drift) THEN p.drift ELSE ZERO
        speed_to_apply == VAdd(VAdd(from_force, from_momentum), from_drift)
        should_change_velocity == \/ p.outside_force.some
                                  \/ has_momentum(p.momentum)
                                  \/ has_drift(p.drift)
    IN  IF should_change_velocity THEN speed_to_apply ELSE p.velocity

\* the velocity apply_momentum leaves on an entity matched by its query
composed_velocity(p) ==
    LET from_force == IF p.outside_force.some
                      THEN Vec3(p.outside_force.val.x, 0, p.outside_force.val.z)
                      ELSE ZERO
        from_momentum == IF has_momentum(p.momentum)
                         THEN VScale(p.forward, momentum_get(p.momentum))
                         ELSE ZERO
        from_drift == IF has_drift(p.drift) THEN p.drift ELSE ZERO
        speed_to_apply == VAdd(VAdd(from_force, from_momentum), from_drift)
        should_change_velocity == \/ p.outside_force.some
                                  \/ has_momentum(p.momentum)
                                  \/ has_drift(p.drift)
    IN  IF should_change_velocity
        THEN [p.velocity EXCEPT !.x = speed_to_apply.x, !.z = speed_to_apply.z]
        ELSE p.velocity

apply_momentum ==
    /\ UNCHANGED scheduled
    /\ CanRun("apply_momentum")
    /\ ran' = ran \cup {"apply_momentum"}
    /\ last' = Taken("apply_momentum", time_delta, 0)
    /\ IF player.exists /\ ~player.ledge_grab
       THEN player' = [player EXCEPT !.velocity = composed_velocity(player)]
       ELSE UNCHANGED player
    /\ UNCHANGED <<player_speed, camera, action, time_delta, level, commands,
                   panicked>>

----------------------------------------------------------------------------
(* Transient State Manager (mod.rs). *)

LandingMs == 150

\* Busy::new(seconds)
BusyNew(ms) == TimerFromMs(ms)

\* Landing::new()
LandingNew == TimerFromMs(LandingMs)

\* handle_busy that asks the timer before ticking it
busy_step_late(marker, dt) ==
    IF marker.some
    THEN <<Some(TimerTick(marker.val, dt)), marker.val.finished>>
    ELSE <<marker, FALSE>>

\* the loop body of handle_busy and of handle_landing on an attached
\* marker: <<the ticked marker, whether its removal is issued>>
marker_step(marker, dt) ==
    IF marker.some
    THEN LET t == TimerTick(marker.val, dt)
         IN  <<Some(t), t.finished>>
    ELSE <<marker, FALSE>>

handle_busy ==
    /\ UNCHANGED scheduled
    /\ CanRun("handle_busy")
    /\ ran' = ran \cup {"handle_busy"}
    /\ LET r == marker_step(player.busy, time_delta)
       IN  /\ player' = [player EXCEPT !.busy = r[1]]
           /\ commands' = IF r[2] THEN commands \cup {"remove_busy"}
                          ELSE commands
           /\ last' = [Taken("handle_busy", time_delta, 0) EXCEPT
                  !.ticked.busy = IF player.busy.some THEN @ + time_delta
                                  ELSE @,
                  !.removals.busy = IF r[2] THEN @ + 1 ELSE @]
    /\ UNCHANGED <<player_speed, camera, action, time_delta, level, panicked>>

handle_landing ==
    /\ UNCHANGED scheduled
    /\ CanRun("handle_landing")
    /\ ran' = ran \cup {"handle_landing"}
    /\ LET r == marker_step(player.landing, time_delta)
       IN  /\ player' = [player EXCEPT !.landing = r[1]]
           /\ commands' = IF r[2] THEN commands \cup {"remove_landing"}
                          ELSE commands
           /\ last' = [Taken("handle_landing", time_delta, 0) EXCEPT
                  !.ticked.landing = IF player.landing.some
                                     THEN @ + time_delta ELSE @,
                  !.removals.landing = IF r[2] THEN @ + 1 ELSE @]
    /\ UNCHANGED <<player_speed, camera, action, time_delta, level, panicked>>

----------------------------------------------------------------------------
(* Camera Controller (camera.rs). *)

\* CameraController::desired_y_height
desired_y_height(cam, momentum) ==
    IF momentum < 500 THEN cam.y_distance \div 2 ELSE cam.y_distance

\* CameraController::desired_z_distance
desired_z_distance(cam, momentum) ==
    IF momentum < 1000 THEN cam.z_distance ELSE Milli(cam.z_distance * 1500)

\* CameraController::desired_easing_speed
desired_easing_speed(cam) ==
    IF cam.mode.kind = "Normal"
    THEN IF cam.blocked_by_a_wall
         THEN Milli(cam.easing * 2500)
         ELSE cam.easing
    ELSE Milli(cam.easing * 5000)

\* the forward vector (-Z) of a transform yawed by `angle` degrees about Y,
\* for the multiples of 45 degrees: (-sin, 0, -cos), in thousandths
yawed_forward(angle) ==
    CASE angle % 360 = 0   -> Vec3(0, 0, -1000)
      [] angle % 360 = 45  -> Vec3(-707, 0, -707)
      [] angle % 360 = 90  -> Vec3(-1000, 0, 0)
      [] angle % 360 = 135 -> Vec3(-707, 0, 707)
      [] angle % 360 = 180 -> Vec3(0, 0, 1000)
      [] angle % 360 = 225 -> Vec3(707, 0, 707)
      [] angle % 360 = 270 -> Vec3(1000, 0, 0)
      [] angle % 360 = 315 -> Vec3(707, 0, -707)

\* the camera position the chase wants, before the ray cast
desired_position(cam, p) ==
    VAdd(VAdd(p.translation,
              VScale(yawed_forward(cam.angle),
                     desired_z_distance(cam, momentum_get(p.momentum)))),
         Vec3(0, desired_y_height(cam, momentum_get(p.momentum)), 0))

\* RapierContext::cast_ray_and_get_normal from ray_pos along ray_dir up to
\* max_distance.  The level is either empty or a closed room whose wall is
\* level.val away from the ray's origin in every direction; the result is
\* the hit point, if any
cast_ray(lv, ray_pos, ray_dir, max_distance) ==
    IF lv.some /\ lv.val <= max_distance /\ ray_dir # ZERO
    THEN Some(VAdd(ray_pos, VScale(ray_dir, lv.val)))
    ELSE None(ZERO)

\* the ray cast of update_camera_target_position: from the player toward
\* the desired position, no farther than it
chase_ray(cam, p, lv) ==
    LET desired == desired_position(cam, p)
        ray_pos == p.translation
        ray_dir == normalize_or_zero(VSub(desired, p.translation))
        max_distance == Length(VSub(desired, ray_pos))
    IN  cast_ray(lv, ray_pos, ray_dir, max_distance)

\* the target that never looks at the ray cast
target_unclamped(cam, p, lv) == desired_position(cam, p)

\* the target update_camera_target_position caches
target_after_ray(cam, p, lv) ==
    LET hit == chase_ray(cam, p, lv)
    IN  IF hit.some THEN hit.val ELSE desired_position(cam, p)

update_camera_target_position ==
    /\ UNCHANGED scheduled
    /\ CanRun("update_camera_target_position")
    /\ ran' = ran \cup {"update_camera_target_position"}
    /\ last' = Taken("update_camera_target_position", time_delta, 0)
    /\ IF ~camera.exists \/ ~player.exists
       THEN \* camera_query.single_mut() or player_query.single() panics
            /\ panicked' = TRUE
            /\ UNCHANGED camera
       ELSE /\ camera' = [camera EXCEPT
                   !.player_position = player.translation,
                   !.target_position = target_after_ray(camera, player, level)]
            /\ UNCHANGED panicked
    /\ UNCHANGED <<player_speed, player, action, time_delta, level, commands>>

\* Vec3::lerp(a, b, s) = a + (b - a) * s, s in thousandths
lerp(a, b, s) == VAdd(a, VScale(VSub(b, a), s))

\* Transform::look_at(target, Y): the forward vector it leaves (the zero
\* vector stands for the degenerate rotation of target = translation)
look_at(translation, target) == normalize_or_zero(VSub(target, translation))

lerp_to_camera_position ==
    /\ UNCHANGED scheduled
    /\ CanRun("lerp_to_camera_position")
    /\ ran' = ran \cup {"lerp_to_camera_position"}
    /\ last' = Taken("lerp_to_camera_position", time_delta, 0)
    /\ IF camera.exists
       THEN LET s == Milli(time_delta * desired_easing_speed(camera))
                goal == IF camera.mode.kind = "Normal"
                        THEN camera.target_position
                        ELSE camera.mode.position
                look == IF camera.mode.kind = "Normal"
                        THEN camera.player_position
                        ELSE camera.mode.look_target
                lerped_position == lerp(camera.translation, goal, s)
            IN  camera' = [camera EXCEPT
                    !.translation = lerped_position,
                    !.forward = look_at(lerped_position, look)]
       ELSE UNCHANGED camera
    /\ UNCHANGED <<player_speed, player, action, time_delta, level, commands,
                   panicked>>

OrbitStep == 45
FullTurn == 360

\* the angle after the presses of a frame, without the wrap
angle_unwrapped(angle, act) ==
    angle - (IF "CameraLeft" \in act.just_pressed THEN OrbitStep ELSE 0)
          + (IF "CameraRight" \in act.just_pressed THEN OrbitStep ELSE 0)

\* the angle rotate_camera leaves
rotated_angle(angle, act) ==
    LET pressed ==
            angle
            - (IF "CameraLeft" \in act.just_pressed THEN OrbitStep ELSE 0)
            + (IF "CameraRight" \in act.just_pressed THEN OrbitStep ELSE 0)
        high == IF pressed > FullTurn THEN pressed - FullTurn ELSE pressed
    IN  IF high < -FullTurn THEN high + FullTurn ELSE high

rotate_camera ==
    /\ UNCHANGED scheduled
    /\ CanRun("rotate_camera")
    /\ ran' = ran \cup {"rotate_camera"}
    /\ last' = Taken("rotate_camera", time_delta, 0)
    /\ IF ~camera.exists
       THEN \* camera_query.single_mut() panics
            /\ panicked' = TRUE
            /\ UNCHANGED camera
       ELSE IF ~player.exists
       THEN \* "No Player to rotate the camera"
            UNCHANGED <<camera, panicked>>
       ELSE /\ camera' = [camera EXCEPT !.angle = rotated_angle(@, action)]
            /\ UNCHANGED panicked
    /\ UNCHANGED <<player_speed, player, action, time_delta, level, commands>>

\* a toggle that only ever leaves the Fixed mode
toggled_mode_never_fixed(mode) == Normal

\* a toggle that goes back to the pose the camera spawned with
toggled_mode_to_spawn(mode) ==
    IF mode.kind = "Normal"
    THEN Fixed(Vec3(0, 4000, -2300), ZERO)
    ELSE Normal

\* the mode debug_change_camera_mode leaves on a CameraMode press
toggled_mode(mode) ==
    IF mode.kind = "Normal"
    THEN Fixed(Vec3(0, 3000, -2000), ZERO)
    ELSE Normal

debug_change_camera_mode ==
    /\ UNCHANGED scheduled
    /\ CanRun("debug_change_camera_mode")
    /\ ran' = ran \cup {"debug_change_camera_mode"}
    /\ last' = Taken("debug_change_camera_mode", time_delta, 0)
    /\ IF ~camera.exists
       THEN \* camera_query.single_mut() panics
            /\ panicked' = TRUE
            /\ UNCHANGED camera
       ELSE IF ~player.exists
       THEN \* "No Player to set camera mode"
            UNCHANGED <<camera, panicked>>
       ELSE /\ camera' = [camera EXCEPT !.mode =
                   IF "CameraMode" \in action.just_pressed
                   THEN toggled_mode(@) ELSE @]
            /\ UNCHANGED panicked
    /\ UNCHANGED <<player_speed, player, action, time_delta, level, commands>>

----------------------------------------------------------------------------
(* Frame boundary and the collaborators of this core. *)

\* the deferred commands take effect: remove::<Busy>() and
\* remove::<Landing>() detach the marker
apply_commands(p, cmds) ==
    [p EXCEPT !.busy = IF "remove_busy" \in cmds
                       THEN None(TimerFromMs(0)) ELSE @,
              !.landing = IF "remove_landing" \in cmds
                          THEN None(TimerFromMs(0)) ELSE @]

\* all scheduled systems ran: the frame ends, its commands are applied, and the
\* next frame starts with its own delta time, input and level geometry
begin_frame(inputs, deltas, levels) ==
    /\ UNCHANGED scheduled
    /\ ~panicked
    /\ ran = scheduled
    /\ ran' = {}
    /\ player' = apply_commands(player, commands)
    /\ commands' = {}
    /\ UNCHANGED <<player_speed, camera, panicked>>
    /\ \E a \in inputs, dt \in deltas, lv \in levels :
           /\ action' = a
           /\ time_delta' = dt
           /\ level' = lv
           /\ last' = Left("begin_frame", dt)

\* the jumping and physics collaborators attach or detach Grounded
\* between two frames
env_set_grounded(b) ==
    /\ UNCHANGED scheduled
    /\ ~panicked
    /\ ran = {}
    /\ player.exists
    /\ player.grounded # b
    /\ player' = [player EXCEPT !.grounded = b]
    /\ UNCHANGED <<player_speed, camera, action, time_delta, level, ran,
                   commands, panicked>>
    /\ last' = Left("env_set_grounded", 0)

\* a collaborator attaches or detaches the Crouching marker
env_set_crouching(b) ==
    /\ UNCHANGED scheduled
    /\ ~panicked
    /\ ran = {}
    /\ player.exists
    /\ player.crouching # b
    /\ player' = [player EXCEPT !.crouching = b]
    /\ UNCHANGED <<player_speed, camera, action, time_delta, level, ran,
                   commands, panicked>>
    /\ last' = Left("env_set_crouching", 0)

\* a collaborator attaches Busy::new(ms), replacing any Busy attached
env_attach_busy(ms) ==
    /\ UNCHANGED scheduled
    /\ ~panicked
    /\ ran = {}
    /\ player.exists
    /\ player' = [player EXCEPT !.busy = Some(BusyNew(ms))]
    /\ UNCHANGED <<player_speed, camera, action, time_delta, level, ran,
                   commands, panicked>>
    /\ last' = [Left("env_attach_busy", 0) EXCEPT
                   !.ticked.busy = 0, !.removals.busy = 0]

\* a landing event attaches Landing::new(), replacing any Landing attached
env_attach_landing ==
    /\ UNCHANGED scheduled
    /\ ~panicked
    /\ ran = {}
    /\ player.exists
    /\ player' = [player EXCEPT !.landing = Some(LandingNew)]
    /\ UNCHANGED <<player_speed, camera, action, time_delta, level, ran,
                   commands, panicked>>
    /\ last' = [Left("env_attach_landing", 0) EXCEPT
                   !.ticked.landing = 0, !.removals.landing = 0]

\* physics and the collaborating mechanics leave the player with a
\* momentum, a facing, a drift, an outside force, a ledge grab and a
\* velocity of their choosing
env_drive_player(momentum, forward, drift, force, ledge_grab, velocity) ==
    /\ UNCHANGED scheduled
    /\ ~panicked
    /\ ran = {}
    /\ player.exists
    /\ player' = [player EXCEPT !.momentum = momentum,
                                !.forward = forward,
                                !.drift = drift,
                                !.outside_force = force,
                                !.ledge_grab = ledge_grab,
                                !.velocity = velocity]
    /\ UNCHANGED <<player_speed, camera, action, time_delta, level, ran,
                   commands, panicked>>
    /\ last' = Left("env_drive_player", 0)

\* physics moves the player and the speed step leaves it a momentum
env_move_player(translation, momentum) ==
    /\ UNCHANGED scheduled
    /\ ~panicked
    /\ ran = {}
    /\ player.exists
    /\ player' = [player EXCEPT !.translation = translation,
                                !.momentum = momentum]
    /\ UNCHANGED <<player_speed, camera, action, time_delta, level, ran,
                   commands, panicked>>
    /\ last' = Left("env_move_player", 0)

\* the player entity is despawned or spawned between two frames
env_set_player_exists(b) ==
    /\ UNCHANGED scheduled
    /\ ~panicked
    /\ ran = {}
    /\ player.exists # b
    /\ player' = [player EXCEPT !.exists = b]
    /\ UNCHANGED <<player_speed, camera, action, time_delta, level, ran,
                   commands, panicked>>
    /\ last' = Left("env_set_player_exists", 0)

\* the camera entity is despawned or spawned between two frames
env_set_camera_exists(b) ==
    /\ UNCHANGED scheduled
    /\ ~panicked
    /\ ran = {}
    /\ camera.exists # b
    /\ camera' = [camera EXCEPT !.exists = b]
    /\ UNCHANGED <<player_speed, player, action, time_delta, level, ran,
                   commands, panicked>>
    /\ last' = Left("env_set_camera_exists", 0)

Input(pressed, just_pressed) ==
    [pressed |-> pressed, just_pressed |-> just_pressed,
     axis_pair |-> None(<<0, 0>>)]

----------------------------------------------------------------------------
(* The locomotion pipeline: direction, then speed, then velocity.          *)

LocomotionSystems ==
    {"set_player_direction", "handle_player_speed", "apply_momentum"}

LocomotionInputs == {Input(keys, {}) : keys \in SUBSET {"Up", "Crouch"}}

NextLocomotion ==
    \/ set_player_direction
    \/ handle_player_speed
    \/ apply_momentum
    \/ begin_frame(LocomotionInputs, FrameDeltas, {NoLevel})
    \/ \E b \in BOOLEAN : env_set_grounded(b)
    \/ \E b \in BOOLEAN : env_set_crouching(b)

SpecLocomotion == Init(LocomotionSystems) /\ [][NextLocomotion]_vars

----------------------------------------------------------------------------
(* The Velocity Composer on its own. *)

VelocitySystems == {"apply_momentum"}

Momenta == {0, 600}
Forwards == {Vec3(0, 0, 1000), Vec3(1000, 0, 0), Vec3(0, 600, -800)}
Drifts == {ZERO, Vec3(200, 0, 0), Vec3(0, 100, 0)}
Forces == {None(ZERO), Some(ZERO), Some(Vec3(100, 50, -300))}
Velocities == {ZERO, Vec3(10, -980, 20)}

NextVelocity ==
    \/ apply_momentum
    \/ begin_frame({NoInput}, FrameDeltas, {NoLevel})
    \/ \E m \in Momenta, f \in Forwards, d \in Drifts, o \in Forces,
          lg \in BOOLEAN, v \in Velocities :
           env_drive_player(m, f, d, o, lg, v)

SpecVelocity == Init(VelocitySystems) /\ [][NextVelocity]_vars

----------------------------------------------------------------------------
(* The Transient State Manager on its own. *)

TransientSystems == {"handle_busy", "handle_landing"}

BusyDurations == {0, 300, 500}

NextTransient ==
    \/ handle_busy
    \/ handle_landing
    \/ begin_frame({NoInput}, Deltas, {NoLevel})
    \/ \E ms \in BusyDurations : env_attach_busy(ms)
    \/ env_attach_landing

SpecTransient == Init(TransientSystems) /\ [][NextTransient]_vars

----------------------------------------------------------------------------
(* The camera orbit on its own, from any angle of the range. *)

OrbitSystems == {"rotate_camera"}

OrbitInputs ==
    {Input({}, keys) : keys \in SUBSET {"CameraLeft", "CameraRight"}}

InitOrbit ==
    \E a \in (-FullTurn)..FullTurn :
        InitWith(OrbitSystems, DefaultPlayer, [DefaultCamera EXCEPT !.angle = a])

NextOrbit ==
    \/ rotate_camera
    \/ begin_frame(OrbitInputs, {0}, {NoLevel})

SpecOrbit == InitOrbit /\ [][NextOrbit]_vars

----------------------------------------------------------------------------
(* The camera target: orbit and ray cast, around a player physics moves. *)

TargetSystems == {"update_camera_target_position", "rotate_camera"}

\* a wall 5 units from the player, and one 30 units away, out of reach
Levels == {NoLevel, Some(500), Some(3000)}
PlayerPlaces == {ZERO, Vec3(300, 100, -200)}
PlayerMomenta == {0, 750, 1500}

NextTarget ==
    \/ update_camera_target_position
    \/ rotate_camera
    \/ begin_frame(OrbitInputs, {0}, Levels)
    \/ \E t \in PlayerPlaces, m \in PlayerMomenta : env_move_player(t, m)

SpecTarget == Init(TargetSystems) /\ [][NextTarget]_vars

----------------------------------------------------------------------------
(* The camera pipeline. *)

CameraSystems ==
    {"update_camera_target_position", "lerp_to_camera_position",
     "rotate_camera", "debug_change_camera_mode"}

\* the orbit stays where it is: its presses are those of SpecOrbit and
\* SpecTarget
CameraInputs == {Input({}, keys) : keys \in {{}, {"CameraMode"}}}
CameraDeltas == {0, 50}

\* the level is the same in every frame: empty, or a wall 5 units away
InitCamera ==
    /\ scheduled = CameraSystems
    /\ player_speed = DefaultPlayerSpeed
    /\ player = DefaultPlayer
    /\ camera = DefaultCamera
    /\ action = NoInput
    /\ time_delta = 0
    /\ level \in {NoLevel, Some(500)}
    /\ ran = {}
    /\ commands = {}
    /\ panicked = FALSE
    /\ last = [op |-> "init", dt |-> 0, arg |-> 0,
               player_speed |-> player_speed, player |-> player,
               camera |-> camera,
               ticked |-> NoTicks, removals |-> NoTicks, pinned |-> NotPinned]

NextCamera ==
    \/ update_camera_target_position
    \/ lerp_to_camera_position
    \/ rotate_camera
    \/ debug_change_camera_mode
    \/ begin_frame(CameraInputs, CameraDeltas, {level})

SpecCamera == InitCamera /\ [][NextCamera]_vars

----------------------------------------------------------------------------
(* The systems that need the one player or the one camera, while either    *)
(* may be missing.                                                         *)

SingletonSystems ==
    {"set_player_direction", "update_camera_target_position",
     "rotate_camera", "debug_change_camera_mode"}

SingletonInputs ==
    {[pressed |-> keys, just_pressed |-> presses, axis_pair |-> None(<<0, 0>>)] :
        keys \in {{}, {"Up"}}, presses \in {{}, {"CameraRight"}, {"CameraMode"}}}

InitSingletons ==
    \E pe \in BOOLEAN, ce \in BOOLEAN :
        InitWith(SingletonSystems, [DefaultPlayer EXCEPT !.exists = pe],
                 [DefaultCamera EXCEPT !.exists = ce])

NextSingletons ==
    \/ set_player_direction
    \/ update_camera_target_position
    \/ rotate_camera
    \/ debug_change_camera_mode
    \/ begin_frame(SingletonInputs, {0}, {NoLevel})
    \/ \E b \in BOOLEAN : env_set_player_exists(b)
    \/ \E b \in BOOLEAN : env_set_camera_exists(b)

SpecSingletons == InitSingletons /\ [][NextSingletons]_vars

----------------------------------------------------------------------------
(* The Movement Direction Resolver on its own: any directional input,      *)
(* digital or analog, under a camera looking along one of a few directions, *)
(* for a player that leaves and regains the ground.                        *)

DirectionSystems == {"set_player_direction"}

\* the analog stick: no axis data, centred, full right, up and to the left
AxisPairs == {None(<<0, 0>>), Some(<<0, 0>>), Some(<<1000, 0>>),
              Some(<<-600, 800>>)}

DirectionInputs ==
    {[pressed |-> keys, just_pressed |-> {}, axis_pair |-> ax] :
        keys \in SUBSET {"Up", "Down", "Left", "Right", "Move"},
        ax \in AxisPairs}

\* the camera looks along -Z, along -X, or down and ahead
CameraForwards == {Vec3(0, 0, -1000), Vec3(-1000, 0, 0), Vec3(0, -600, -800)}

InitDirection ==
    \E f \in CameraForwards :
        InitWith(DirectionSystems, DefaultPlayer,
                 [DefaultCamera EXCEPT !.forward = f])

NextDirection ==
    \/ set_player_direction
    \/ begin_frame(DirectionInputs, {0}, {NoLevel})
    \/ \E b \in BOOLEAN : env_set_grounded(b)

SpecDirection == InitDirection /\ [][NextDirection]_vars

----------------------------------------------------------------------------
(* The camera pipeline in Normal mode behind a player that physics moves   *)
(* between frames: the target is cached, then the pose eases toward it.    *)

PipelineSystems ==
    {"update_camera_target_position", "lerp_to_camera_position"}

\* frame deltas that make the Normal-mode lerp factor 0, 0.5 and 1
PipelineDeltas == {0, 125, 250}

\* the camera after a first frame of zero delta in which CameraMode was
\* pressed: in Normal mode, the target of the player at the origin cached,
\* the pose still where it spawned
ToggledCamera ==
    [DefaultCamera EXCEPT !.mode = toggled_mode(@),
                          !.target_position = Vec3(0, 350, -1000),
                          !.forward = look_at(ZERO, ZERO)]

InitPipeline == InitWith(PipelineSystems, DefaultPlayer, ToggledCamera)

NextPipeline ==
    \/ update_camera_target_position
    \/ lerp_to_camera_position
    \/ begin_frame({NoInput}, PipelineDeltas, {NoLevel})
    \/ \E t \in PlayerPlaces : env_move_player(t, 0)

SpecPipeline == InitPipeline /\ [][NextPipeline]_vars

----------------------------------------------------------------------------
(* The camera in the Fixed mode it spawns in, over frames long enough for  *)
(* the lerp factor dt * easing * 5 to pass 1.                              *)

EasingSystems ==
    {"update_camera_target_position", "lerp_to_camera_position",
     "rotate_camera"}

\* frame deltas that make the Fixed-mode lerp factor 0, 1 and 2
EasingDeltas == {0, 50, 100}

NextEasing ==
    \/ update_camera_target_position
    \/ lerp_to_camera_position
    \/ rotate_camera
    \/ begin_frame(OrbitInputs, EasingDeltas, {NoLevel})

SpecEasing == Init(EasingSystems) /\ [][NextEasing]_vars

----------------------------------------------------------------------------
(* A run: the grounded player keeps moving, frame after frame of one and   *)
(* the same delta; every frame is eventually played.                       *)

RunSystems == {"handle_player_speed", "apply_momentum"}

\* frame deltas dt with 0 < dt * acceleration <= 1
RunDeltas == {50, 100, 200, 500, 1000}

\* the player as set_player_direction leaves it while Up is held under the
\* camera looking along -Z
RunningPlayer == [DefaultPlayer EXCEPT !.movement = Vec3(0, 0, -1000)]

InitRun ==
    /\ scheduled = RunSystems
    /\ player_speed = DefaultPlayerSpeed
    /\ player = RunningPlayer
    /\ camera = DefaultCamera
    /\ action = Input({"Up"}, {})
    /\ time_delta \in RunDeltas
    /\ level = NoLevel
    /\ ran = {}
    /\ commands = {}
    /\ panicked = FALSE
    /\ last = [op |-> "init", dt |-> 0, arg |-> 0,
               player_speed |-> player_speed, player |-> player,
               camera |-> camera,
               ticked |-> NoTicks, removals |-> NoTicks, pinned |-> NotPinned]

NextRun ==
    \/ handle_player_speed
    \/ apply_momentum
    \/ begin_frame({action}, {time_delta}, {NoLevel})

SpecRun == InitRun /\ [][NextRun]_vars /\ WF_vars(NextRun)

----------------------------------------------------------------------------
(* The Speed Model claims. *)

\* C1: after any sequence of accelerate, decelerate, reset and set calls,
\* crawl_speed <= current_speed <= top_speed.
SpeedStaysClamped ==
    /\ player_speed.crawl_speed <= player_speed.current_speed
    /\ player_speed.current_speed <= player_speed.top_speed

\* PlayerSpeed at its base values with both gating timers cleared
AtBase(ps) ==
    /\ ps.current_speed = ps.base_speed
    /\ ps.top_speed = ps.base_top_speed
    /\ ps.accel_timer.elapsed = 0 /\ ~ps.accel_timer.finished
    /\ ps.decel_timer.elapsed = 0 /\ ~ps.decel_timer.finished

\* C7: reset() from any reachable PlayerSpeed leaves current_speed at
\* base_speed and top_speed at base_top_speed, both gating timers at zero
\* and not finished, and every other field as it was.
ResetRestoresBase ==
    last.op = "reset" =>
        /\ AtBase(player_speed)
        /\ player_speed.base_speed = last.player_speed.base_speed
        /\ player_speed.base_top_speed = last.player_speed.base_top_speed
        /\ player_speed.crawl_speed = last.player_speed.crawl_speed
        /\ player_speed.acceleration = last.player_speed.acceleration
        /\ player_speed.deceleration = last.player_speed.deceleration
        /\ player_speed.accel_timer.duration
               = last.player_speed.accel_timer.duration
        /\ player_speed.decel_timer.duration
               = last.player_speed.decel_timer.duration
        /\ player_speed.current_speed = BaseSpeed
        /\ player_speed.top_speed = BaseTopSpeed

\* reset() was called on a PlayerSpeed whose top speed set() had overridden,
\* whose speed had moved and whose gating timers had both finished
ResetAfterOverride ==
    /\ last.op = "reset"
    /\ last.player_speed.top_speed # last.player_speed.base_top_speed
    /\ last.player_speed.current_speed # last.player_speed.top_speed
    /\ last.player_speed.accel_timer.finished
    /\ last.player_speed.decel_timer.finished
    /\ AtBase(player_speed)

----------------------------------------------------------------------------
(* The speed step of the frame loop. *)

\* C2: after a frame of the speed step in which the player is airborne,
\* PlayerSpeed is at its base values.
AirborneFrameResetsSpeed ==
    (last.op = "handle_player_speed" /\ last.player.exists
         /\ ~last.player.grounded)
        => AtBase(player_speed)

\* the player crouches: the Crouch action is held or the Crouching marker
\* is attached
IsCrouching(p, act) == "Crouch" \in act.pressed \/ p.crouching

\* C9: on a frame in which the grounded player is moving and crouching, by
\* the Crouch action or by the Crouching marker, the speed step runs
\* decelerate and sets Momentum to the resulting current_speed.
CrouchDecelerates ==
    (last.op = "handle_player_speed" /\ last.player.exists
         /\ last.player.grounded /\ is_moving(last.player.movement)
         /\ IsCrouching(last.player, action))
        => /\ player_speed = decelerate(last.player_speed, last.dt)
           /\ player.momentum = player_speed.current_speed

----------------------------------------------------------------------------
(* The camera claims. *)

\* C3: in Normal mode, on a frame whose chase ray hits level geometry the
\* target is the hit point, the blocked-by-a-wall flag is set and the
\* pose-lerp of the frame eases at 2.5 times the base rate; on a frame
\* without a hit it eases at the base rate.
BlockedFrameEasesFaster ==
    LET hit == chase_ray(last.camera, player, level)
    IN  /\ (last.op = "update_camera_target_position" /\ ~panicked
                /\ camera.mode.kind = "Normal")
            => IF hit.some
               THEN /\ camera.target_position = hit.val
                    /\ camera.blocked_by_a_wall
                    /\ desired_easing_speed(camera)
                           = Milli(camera.easing * 2500)
               ELSE desired_easing_speed(camera) = camera.easing
        /\ (last.op = "lerp_to_camera_position"
                /\ last.camera.mode.kind = "Normal"
                /\ hit.some /\ last.camera.target_position = hit.val)
            => camera.translation =
                   lerp(last.camera.translation, last.camera.target_position,
                        Milli(last.dt * Milli(last.camera.easing * 2500)))

\* C4: a system that finds the player or the camera missing skips its work,
\* leaves all state as it was, and the frame loop goes on.
MissingSingletonIsNoOp ==
    (last.op \in SingletonSystems
         /\ (~last.player.exists \/ ~last.camera.exists))
        => /\ ~panicked
           /\ player = last.player
           /\ camera = last.camera
           /\ player_speed = last.player_speed

\* C5: from any angle within [-360, 360], after any frames of rotate_camera
\* with CameraLeft, CameraRight, both or neither newly pressed, the angle
\* lies within [-360, 360]; and from 350 one CameraRight press gives 35.
OrbitAngleInRange ==
    /\ -360 <= camera.angle /\ camera.angle <= 360
    /\ (last.op = "rotate_camera" /\ last.camera.angle = 350
            /\ action.just_pressed = {"CameraRight"})
        => camera.angle = 35

\* rotate_camera took the angle past 360 and wrapped it: 350 to 35
OrbitWrapped ==
    /\ last.op = "rotate_camera"
    /\ last.camera.angle = 350
    /\ action.just_pressed = {"CameraRight"}
    /\ camera.angle = 35

\* C8: after update_camera_target_position the cached target is the ray's
\* hit point when a wall lies within the straight-line distance to the
\* desired position, and the unclamped desired position when none does; so
\* the target is never farther from the player than the nearest hit.
TargetClampedToHit ==
    last.op = "update_camera_target_position" =>
        LET desired == desired_position(last.camera, player)
            ray == VSub(desired, player.translation)
            from_player == VSub(camera.target_position, player.translation)
        IN  IF level.some /\ level.val <= Length(ray)
            THEN /\ camera.target_position =
                        VAdd(player.translation,
                             VScale(normalize_or_zero(ray), level.val))
                 /\ Length(from_player) <= level.val
            ELSE camera.target_position = desired

\* the chase ray of a player at the origin hit the wall 5 units away, and
\* the target is that hit point, short of the desired position
TargetWasClamped ==
    /\ last.op = "update_camera_target_position"
    /\ level = Some(500)
    /\ player.translation = ZERO
    /\ camera.angle = 0
    /\ desired_position(last.camera, player) = Vec3(0, 350, -1000)
    /\ camera.target_position = Vec3(0, 165, -472)

----------------------------------------------------------------------------
(* The Transient State Manager claims. *)

\* a marker of the running frame, after its handler ran: its removal is
\* issued exactly when the time ticked into it has reached its duration, and
\* is issued once
RemovedWhenDue(marker, handler, removal, ticked, removals) ==
    /\ (marker.some /\ handler \in ran)
        => ((removal \in commands) <=> (ticked >= marker.val.duration))
    /\ (last.op = "begin_frame" /\ marker.some)
        => ticked < marker.val.duration
    /\ removals <= 1
    /\ (removal \in commands) => removals = 1

\* C6: a Busy or Landing marker is still attached after every frame in
\* which the time ticked into it is below its duration, and its removal is
\* issued, once, in the first frame in which that time has reached it.
MarkersRemovedWhenDue ==
    /\ RemovedWhenDue(player.busy, "handle_busy", "remove_busy",
                      last.ticked.busy, last.removals.busy)
    /\ RemovedWhenDue(player.landing, "handle_landing", "remove_landing",
                      last.ticked.landing, last.removals.landing)

\* a Busy(0.5) lived through a frame that left it short of its duration
\* and has its removal issued in the frame that took it past it
BusyRemovedOnDueFrame ==
    /\ last.op = "handle_busy"
    /\ player.busy.some
    /\ player.busy.val.duration = 500
    /\ "remove_busy" \in commands
    /\ last.ticked.busy >= 500
    /\ last.dt < last.ticked.busy
    /\ last.ticked.busy - last.dt < 500

----------------------------------------------------------------------------
(* The Velocity Composer claims. *)

\* C10: for a player without LedgeGrab with at least one active source,
\* apply_momentum sets velocity.x and velocity.z to the sum, over the
\* active sources, of OutsideForce, forward * momentum and Drift; momentum 6
\* along forward (0,0,1) gives x = 0, z = 6, and with Drift (2,0,0) added
\* x = 2, z = 6.
VelocityIsSumOfSources ==
    LET p == last.player
        force_on == p.outside_force.some
        momentum_on == p.momentum # 0
        drift_on == p.drift # ZERO
        sum_x == (IF force_on THEN p.outside_force.val.x ELSE 0)
                 + (IF momentum_on THEN Milli(p.forward.x * p.momentum) ELSE 0)
                 + (IF drift_on THEN p.drift.x ELSE 0)
        sum_z == (IF force_on THEN p.outside_force.val.z ELSE 0)
                 + (IF momentum_on THEN Milli(p.forward.z * p.momentum) ELSE 0)
                 + (IF drift_on THEN p.drift.z ELSE 0)
    IN  (last.op = "apply_momentum" /\ p.exists /\ ~p.ledge_grab
             /\ (force_on \/ momentum_on \/ drift_on))
            => /\ player.velocity.x = sum_x
               /\ player.velocity.z = sum_z
               /\ (~force_on /\ p.momentum = 600
                       /\ p.forward = Vec3(0, 0, 1000))
                   => /\ p.drift = ZERO
                          => (player.velocity.x = 0 /\ player.velocity.z = 600)
                      /\ p.drift = Vec3(200, 0, 0)
                          => (player.velocity.x = 200 /\ player.velocity.z = 600)

\* apply_momentum composed momentum 6 along (0,0,1) with Drift (2,0,0), over
\* a velocity that was something else
MomentumAndDriftComposed ==
    /\ last.op = "apply_momentum"
    /\ ~last.player.ledge_grab
    /\ ~last.player.outside_force.some
    /\ last.player.momentum = 600
    /\ last.player.forward = Vec3(0, 0, 1000)
    /\ last.player.drift = Vec3(200, 0, 0)
    /\ last.player.velocity = Vec3(10, -980, 20)
    /\ player.velocity = Vec3(200, -980, 600)

\* C11: apply_momentum never changes velocity.y; with no source active (no
\* OutsideForce, zero Momentum, zero Drift) it leaves the whole velocity as
\* it was; and it leaves the whole velocity of an entity with LedgeGrab as
\* it was, whatever its momentum, drift or outside force.
VelocityFrameConditions ==
    LET p == last.player
    IN  last.op = "apply_momentum" =>
            /\ player.velocity.y = p.velocity.y
            /\ (~p.outside_force.some /\ p.momentum = 0 /\ p.drift = ZERO)
                   => player.velocity = p.velocity
            /\ p.ledge_grab => player.velocity = p.velocity
            /\ player = [p EXCEPT !.velocity = player.velocity]

\* apply_momentum ran over a falling player whose forward and drift point
\* upward, and over one in LedgeGrab with every source active
VerticalLeftToPhysics ==
    /\ last.op = "apply_momentum"
    /\ last.player.velocity = Vec3(10, -980, 20)
    /\ last.player.momentum = 600
    /\ last.player.forward = Vec3(0, 600, -800)
    /\ last.player.drift = Vec3(0, 100, 0)
    /\ last.player.outside_force = Some(Vec3(100, 50, -300))
    /\ \/ ~last.player.ledge_grab /\ player.velocity = Vec3(100, -980, -780)
       \/ last.player.ledge_grab /\ player.velocity = Vec3(10, -980, 20)

----------------------------------------------------------------------------
(* The acceleration warm-up. *)

\* C12: a frame of accelerate(dt) leaves current_speed as it was while the
\* time ticked into the acceleration timer is below the warm-up; from the
\* frame the timer is finished on, it sets current_speed to
\* current + (top_speed - current) * dt * acceleration when
\* current + 0.3 <= top_speed, and to top_speed otherwise.
WarmupGatesAcceleration ==
    LET pre == last.player_speed
        ticked_time == pre.accel_timer.elapsed + last.dt
        warmed_up == pre.accel_timer.finished \/ ticked_time >= AccelWarmupMs
        gap == pre.top_speed - pre.current_speed
    IN  last.op = "accelerate" =>
            /\ player_speed.top_speed = pre.top_speed
            /\ player_speed.current_speed =
                   IF ~warmed_up THEN pre.current_speed
                   ELSE IF gap >= SnapGap
                   THEN pre.current_speed
                        + Quot(gap * Quot(last.dt * pre.acceleration, 1000), 1000)
                   ELSE pre.top_speed

\* from reset, a first frame of 0.2 s left the speed at 7.5 and the second
\* frame of 0.2 s, finishing the warm-up, took it to 7.5 + 7.5 * 0.2 = 9.0
WarmupJustElapsed ==
    /\ last.op = "accelerate"
    /\ last.dt = 200
    /\ last.player_speed.accel_timer.elapsed = 200
    /\ ~last.player_speed.accel_timer.finished
    /\ last.player_speed.current_speed = 750
    /\ last.player_speed.top_speed = 1500
    /\ player_speed.accel_timer.finished
    /\ player_speed.current_speed = 900

----------------------------------------------------------------------------
(* The camera mode toggle. *)

\* C13: on a frame in which CameraMode is newly pressed a camera in Normal
\* mode switches to the Fixed pose at (0,30,-20) looking at the origin and
\* a camera in a Fixed mode switches to Normal; without the press the mode
\* stays; and the toggle changes nothing else of the camera.
ModeToggles ==
    (last.op = "debug_change_camera_mode" /\ last.camera.exists
         /\ last.player.exists)
        => /\ camera.mode =
                  IF "CameraMode" \notin action.just_pressed
                  THEN last.camera.mode
                  ELSE IF last.camera.mode.kind = "Normal"
                  THEN [kind |-> "Fixed", position |-> Vec3(0, 3000, -2000),
                        look_target |-> ZERO]
                  ELSE [kind |-> "Normal", position |-> ZERO,
                        look_target |-> ZERO]
           /\ camera = [last.camera EXCEPT !.mode = camera.mode]

\* a press took the camera from the Fixed pose it spawned with to Normal,
\* with a target cached and the camera away from the origin
SpawnPoseLeftForNormal ==
    /\ last.op = "debug_change_camera_mode"
    /\ "CameraMode" \in action.just_pressed
    /\ last.camera.mode = DefaultCamera.mode
    /\ camera.mode.kind = "Normal"
    /\ camera.target_position # ZERO
    /\ camera.translation # ZERO

\* C20: the camera spawns in Fixed mode at (0,40,-23); once a CameraMode
\* press has toggled it, the mode is Normal or Fixed at (0,30,-20) looking
\* at the origin in every later state: the spawn pose is never entered
\* again, and two presses from it lead to the (0,30,-20) pose.
SpawnPoseNeverReentered ==
    [][LET spawn == Fixed(Vec3(0, 4000, -2300), ZERO)
           canonical == Fixed(Vec3(0, 3000, -2000), ZERO)
       IN  /\ camera.mode = spawn \/ camera.mode \in {Normal, canonical}
           /\ (last'.op = "debug_change_camera_mode"
                   /\ "CameraMode" \in action.just_pressed)
                  => camera'.mode \in {Normal, canonical}
           /\ camera.mode # spawn => camera'.mode # spawn]_vars

\* the second press from the spawn state: Normal gives way to the Fixed
\* pose at (0,30,-20)
SecondPressIsCanonical ==
    /\ last.op = "debug_change_camera_mode"
    /\ "CameraMode" \in action.just_pressed
    /\ last.camera.mode.kind = "Normal"
    /\ camera.mode = Fixed(Vec3(0, 3000, -2000), ZERO)

----------------------------------------------------------------------------
(* The Movement Direction Resolver claims. *)

\* the direction x to the camera's right and z along its view, flattened
\* to the ground plane and normalised; x and z in thousandths
CameraRelative(cam_forward, x, z) ==
    LET f == normalize_or_zero(Vec3(cam_forward.x, 0, cam_forward.z))
        r == Vec3(-f.z, 0, f.x)
    IN  normalize_or_zero(Vec3(Milli(r.x * x) + Milli(f.x * z), 0,
                               Milli(r.z * x) + Milli(f.z * z)))

\* the x and z the discrete presses add up to
PressedX(act) ==
    (IF "Right" \in act.pressed THEN 1000 ELSE 0)
    - (IF "Left" \in act.pressed THEN 1000 ELSE 0)
PressedZ(act) ==
    (IF "Up" \in act.pressed THEN 1000 ELSE 0)
    - (IF "Down" \in act.pressed THEN 1000 ELSE 0)

\* C14: after set_player_direction on a frame in which the player is not
\* Grounded, Movement is the zero vector whatever input is held and whatever
\* it was; on a frame in which the player is Grounded, Movement is the
\* camera-relative direction of the input, zero with no input and when
\* opposite presses cancel.
AirborneMovementIsZero ==
    (last.op = "set_player_direction" /\ ~panicked
         /\ last.player.exists /\ last.camera.exists)
        => IF ~last.player.grounded
           THEN player.movement = ZERO
           ELSE /\ "Move" \notin action.pressed =>
                       player.movement =
                           CameraRelative(camera.forward, PressedX(action),
                                          PressedZ(action))
                /\ "Move" \in action.pressed =>
                       player.movement =
                           CameraRelative(camera.forward,
                                          action.axis_pair.val[1],
                                          action.axis_pair.val[2])
                /\ action.pressed \in {{}, {"Up", "Down"}, {"Left", "Right"},
                                       {"Up", "Down", "Left", "Right"}}
                       => player.movement = ZERO
                /\ (action.pressed = {"Up"}
                        /\ camera.forward = Vec3(0, -600, -800))
                       => player.movement = Vec3(0, 0, -1000)
                /\ (action.pressed = {"Right"}
                        /\ camera.forward = Vec3(0, 0, -1000))
                       => player.movement = Vec3(1000, 0, 0)

\* the player left the ground while moving and holds Up: the airborne frame
\* zeroed the Movement of the last grounded frame
AirborneMovementZeroed ==
    /\ last.op = "set_player_direction"
    /\ ~last.player.grounded
    /\ last.player.movement = Vec3(0, 0, -1000)
    /\ action.pressed = {"Up"}
    /\ player.movement = ZERO

\* C15: with the analog Move action active and no axis value for it, the
\* resolver returns the direction of the discrete presses and no failure
\* is reached; with an axis value, the analog value is the direction.
AnalogFallsBackToPresses ==
    (last.op = "set_player_direction" /\ last.player.exists
         /\ last.camera.exists /\ last.player.grounded
         /\ "Move" \in action.pressed)
        => IF action.axis_pair.some
           THEN /\ ~panicked
                /\ player.movement =
                       CameraRelative(camera.forward, action.axis_pair.val[1],
                                      action.axis_pair.val[2])
           ELSE /\ ~panicked
                /\ player.movement =
                       CameraRelative(camera.forward, PressedX(action),
                                      PressedZ(action))

----------------------------------------------------------------------------
(* The camera pipeline claims. *)

\* C16: in every frame update_camera_target_position runs before
\* lerp_to_camera_position, so the pose-lerp of a frame reads the
\* target_position and player_position cached in that frame, those of the
\* player's place in that frame.
TargetCachedBeforeLerp ==
    last.op = "lerp_to_camera_position" =>
        /\ "update_camera_target_position" \in ran
        /\ last.camera.player_position = player.translation
        /\ last.camera.target_position =
               VAdd(player.translation, Vec3(0, 350, -1000))
        /\ last.camera.mode.kind = "Normal" =>
               /\ camera.translation =
                      lerp(last.camera.translation,
                           VAdd(player.translation, Vec3(0, 350, -1000)),
                           Milli(last.dt * 4000))
               /\ camera.forward =
                      look_at(camera.translation, player.translation)

\* the player moved before the frame; in Normal mode the pose-lerp of the
\* frame eased the camera from the target of the old place halfway to the
\* target of the new one
LerpTowardNewPlace ==
    /\ last.op = "lerp_to_camera_position"
    /\ last.camera.mode.kind = "Normal"
    /\ last.dt = 125
    /\ player.translation = Vec3(300, 100, -200)
    /\ last.camera.translation = Vec3(0, 350, -1000)
    /\ last.camera.target_position = Vec3(300, 450, -1200)
    /\ camera.translation = Vec3(150, 400, -1100)

----------------------------------------------------------------------------
(* The speed override. *)

\* C17: right after set(s), current_speed and top_speed are s and both
\* gating timers are as they were; and through any calls of accelerate that
\* follow, current_speed stays s until the next reset() or set().
SetPinsSpeed ==
    /\ last.op = "set" =>
           /\ player_speed.current_speed = last.arg
           /\ player_speed.top_speed = last.arg
           /\ player_speed.accel_timer = last.player_speed.accel_timer
           /\ player_speed.decel_timer = last.player_speed.decel_timer
    /\ last.pinned.some =>
           /\ player_speed.current_speed = last.pinned.val
           /\ player_speed.top_speed = last.pinned.val

\* set(10.0) pinned the speed below where it was, and a frame of accelerate
\* of 1 s with the warm-up over left it at 10.0
AccelerateKeepsPinnedSpeed ==
    /\ last.op = "accelerate"
    /\ last.dt = 1000
    /\ last.pinned = Some(1000)
    /\ player_speed.accel_timer.finished
    /\ player_speed.current_speed = 1000

----------------------------------------------------------------------------
(* The pose-lerp claims. *)

\* v lies between a and b
Between(a, v, b) == (a <= v /\ v <= b) \/ (b <= v /\ v <= a)

\* C18: for every frame delta and every mode, a step of
\* lerp_to_camera_position leaves the camera on the segment between where
\* it was and its goal (the target in Normal mode, the fixed position in
\* Fixed mode), so its distance to the goal never grows.
PoseLerpStaysOnSegment ==
    LET goal == IF last.camera.mode.kind = "Normal"
                THEN last.camera.target_position
                ELSE last.camera.mode.position
        from == last.camera.translation
        to == camera.translation
    IN  (last.op = "lerp_to_camera_position" /\ last.camera.exists)
            => /\ Between(from.x, to.x, goal.x)
               /\ Between(from.y, to.y, goal.y)
               /\ Between(from.z, to.z, goal.z)
               /\ Length(VSub(goal, to)) <= Length(VSub(goal, from))

----------------------------------------------------------------------------
(* The run to the top speed. *)

\* C19: while the player stays grounded, moving and not crouching and every
\* frame has the same positive delta dt with dt * acceleration <= 1, after
\* finitely many frames current_speed is top_speed exactly and Momentum is
\* top_speed, and both stay so on every later frame.
ReachesTopSpeed ==
    <>[](/\ player_speed.current_speed = player_speed.top_speed
         /\ player.momentum = player_speed.top_speed)

\* the frame of the snap: the speed step found the speed within 0.3 of the
\* top speed and left speed and Momentum at 15.0
SnappedToTopSpeed ==
    /\ last.op = "handle_player_speed"
    /\ last.player_speed.current_speed < 1500
    /\ last.player_speed.current_speed + 30 > 1500
    /\ last.player.momentum = last.player_speed.current_speed
    /\ player_speed.current_speed = 1500
    /\ player.momentum = 1500

====
